---- MODULE Spec2Model ----
(***************************************************************************)
(* The browser client of the audio downloader (app/frontend/src): the      *)
(* ClientState store, the DOM it is projected on, the transport requests   *)
(* in flight and the event handlers / timer callback that drive them.      *)
(*                                                                         *)
(* One step of the model is one synchronous section of the single UI       *)
(* thread: an event handler or a promise continuation run up to its next   *)
(* `await` on the network.  A queue fetch is answered in two steps (the     *)
(* backend takes the snapshot, later the response reaches the awaiting     *)
(* continuation), so that snapshots can arrive stale and out of order; the *)
(* other requests are handled and answered in one step.                    *)
(***************************************************************************)
EXTENDS Integers, Sequences, FiniteSets, TLC

VARIABLES
    state,        \* the ClientState singleton (state.ts)
    dom,          \* what render()/renderQueue()/syncPreviewPlayer() wrote, and the url input
    tasks,        \* async operations suspended at an await, oldest first
    boot,         \* bootstrap(): its three startup loads and whether setInterval ran
    server,       \* the backend's queue and the next id it assigns
    quiesced,     \* environment: no further user mutation, no further failure
    ev            \* the step just taken and what it did to the audio player

vars == <<state, dom, tasks, boot, server, quiesced, ev>>

-----------------------------------------------------------------------------
(* Bounds *)

MaxIds == 2
MaxTasks == 2
\* how far, in whole percent, a progress value may lie outside 0..100
MaxOver == 2

-----------------------------------------------------------------------------
(* Values *)

NoId == 0
Ids == 1..MaxIds
Urls == {"/preview/a", "/preview/b"}
API_BASE == "http://127.0.0.1:47815"
NoSrc == <<>>
Idle == [id |-> NoId, url |-> ""]

MsgAdd == "Fetching video info..."
MsgImport == "Loading items from file (yt-dlp can take a while)..."
MsgUrlError == "Please enter a valid YouTube URL."


Max(a, b) == IF a >= b THEN a ELSE b

Min(a, b) == IF a <= b THEN a ELSE b

\* progress: number | null.  A number is kept in tenths (42.6 is 426), so that
\* rounding has something to round.
Scale == 10
Null == [isNumber |-> FALSE, x |-> 0]
Number(x) == [isNumber |-> TRUE, x |-> x]

States == {"WAITING", "WORKING", "COMPLETE", "FAILED"}
Titles == {"t0", "t1"}

\* a QueueItem (state.ts); thumbnail, duration and error play no part here
Item(id, st, progress, title, artist) ==
    [id |-> id, state |-> st, progress |-> progress, title |-> title, artist |-> artist]

\* the item the backend makes of an added URL
NewItem(id) == Item(id, "WAITING", Null, "t0", "t0")

\* the ids of a queue, or of the rendered cards, in order
IdsOf(q) == [k \in 1..Len(q) |-> q[k].id]

Contains(q, id) == \E k \in 1..Len(q) : q[k].id = id

RECURSIVE Without(_, _)
Without(q, S) ==
    IF q = <<>> THEN <<>>
    ELSE IF Head(q).id \in S THEN Without(Tail(q), S)
    ELSE <<Head(q)>> \o Without(Tail(q), S)

RemoveAt(s, i) == [k \in 1..(Len(s) - 1) |-> IF k < i THEN s[k] ELSE s[k + 1]]

SetOf(q) == {q[k].id : k \in 1..Len(q)}

-----------------------------------------------------------------------------
(* The add-URL field: a text is its surrounding whitespace and what       *)
(* `new URL(...)` makes of the rest.  A pathname is the sequence of its    *)
(* pieces ("/" and the words between), v is the `v` search parameter:      *)
(* "absent", "empty" (`?v=`) or "value".                                   *)

Text(pad, chars, parses, protocol, hostname, pathname, v) ==
    [pad |-> pad, chars |-> chars, parses |-> parses, protocol |-> protocol,
     hostname |-> hostname, pathname |-> pathname, v |-> v]

EmptyText == Text(FALSE, FALSE, FALSE, "", "", <<>>, "absent")
BlankText == Text(TRUE, FALSE, FALSE, "", "", <<>>, "absent")
WatchText == Text(FALSE, TRUE, TRUE, "https:", "www.youtube.com", <<"/", "watch">>, "value")
ShortPadText == Text(TRUE, TRUE, TRUE, "https:", "youtu.be", <<"/", "abc123">>, "absent")
GarbageText == Text(FALSE, TRUE, FALSE, "", "", <<>>, "absent")
FtpText == Text(FALSE, TRUE, TRUE, "ftp:", "youtube.com", <<"/", "watch">>, "value")

InputTexts == {EmptyText, BlankText, ShortPadText, GarbageText}

trim(value) == [value EXCEPT !.pad = FALSE]

\* String.prototype.startsWith
startsWith(str, prefix) ==
    Len(str) >= Len(prefix) /\ SubSeq(str, 1, Len(prefix)) = prefix

\* str.replace("/", ""): the first "/" is taken out
replaceSlash(str) ==
    IF \E k \in 1..Len(str) : str[k] = "/"
    THEN LET k == CHOOSE i \in 1..Len(str) : str[i] = "/" /\ \A j \in 1..(i - 1) : str[j] # "/"
         IN  SubSeq(str, 1, k - 1) \o SubSeq(str, k + 1, Len(str))
    ELSE str

\* URLSearchParams.has("v")
hasV(value) == value.v # "absent"

\* utils.ts 44-62
isValidYoutubeUrl(value) ==
    IF ~value.parses THEN FALSE
    ELSE IF value.protocol \notin {"http:", "https:"} THEN FALSE
    ELSE IF value.hostname = "youtu.be" THEN replaceSlash(value.pathname) # <<>>
    ELSE IF value.hostname \in {"www.youtube.com", "youtube.com", "m.youtube.com"}
         THEN startsWith(value.pathname, <<"/", "watch">>) /\ hasV(value)
    ELSE FALSE

-----------------------------------------------------------------------------
(* Rendering engine (ui.ts).  A handler's synchronous section is folded    *)
(* over a world w = [st, dom, fx]: the ClientState, the DOM, and the calls *)
(* the section made on the audio element.                                  *)

NoFx == [srcWrites |-> 0, srcClears |-> 0, plays |-> 0, pauses |-> 0]

World(st, d) == [st |-> st, dom |-> d, fx |-> NoFx]

\* ui.ts 206: the absolute stream address, or none
nextSrcOf(preview) == IF preview.url # "" THEN <<API_BASE, preview.url>> ELSE NoSrc

\* assigns the source without comparing it with the current one
syncPreviewPlayerAlwaysAssigns(w, autoplay) ==
    LET nextSrc == nextSrcOf(w.st.preview)
        w1 == [w EXCEPT !.dom.previewStatus = w.st.preview.id]
    IN  IF nextSrc = NoSrc
        THEN [w1 EXCEPT !.dom.playerSrc = NoSrc, !.fx.pauses = @ + 1,
                        !.fx.srcClears = IF w.dom.playerSrc # NoSrc THEN @ + 1 ELSE @]
        ELSE [w1 EXCEPT !.dom.playerSrc = nextSrc, !.fx.srcWrites = @ + 1,
                        !.fx.plays = IF autoplay THEN @ + 1 ELSE @]

syncPreviewPlayer(w, autoplay) ==
    LET nextSrc == nextSrcOf(w.st.preview)
        src == w.dom.playerSrc
        w1 == [w EXCEPT !.dom.previewStatus = w.st.preview.id]
    IN  IF nextSrc = NoSrc
        THEN [w1 EXCEPT !.dom.playerSrc = NoSrc,
                        !.fx.pauses = @ + 1,
                        !.fx.srcClears = IF src # NoSrc THEN @ + 1 ELSE @]
        ELSE IF src # nextSrc
        THEN [w1 EXCEPT !.dom.playerSrc = nextSrc,
                        !.fx.srcWrites = @ + 1,
                        !.fx.plays = IF autoplay THEN @ + 1 ELSE @]
        ELSE [w1 EXCEPT !.fx.plays = IF autoplay THEN @ + 1 ELSE @]

\* utils.ts 12-31; a label is a fixed text, or n followed by "%"
Label(text) == [text |-> text, n |-> 0]
Percent(n) == [text |-> "%", n |-> n]

\* Math.round of a number kept in tenths: the nearest integer, a half going up
round(x) == (x + Scale \div 2) \div Scale

\* cuts the fraction off instead of rounding
stateLabelTruncates(st, progress) ==
    CASE st = "WAITING" -> Label("Pending")
      [] st = "WORKING" ->
           IF progress.isNumber
           THEN IF progress.x >= 100 * Scale THEN Label("Saving")
                ELSE Percent(progress.x \div Scale)
           ELSE Label("0%")
      [] st = "COMPLETE" -> Label("Finished")
      [] st = "FAILED" -> Label("Failed")
      [] OTHER -> Label(st)

stateLabel(st, progress) ==
    CASE st = "WAITING" -> Label("Pending")
      [] st = "WORKING" ->
           IF progress.isNumber
           THEN IF progress.x >= 100 * Scale THEN Label("Saving")
                ELSE Percent(round(progress.x))
           ELSE Label("0%")
      [] st = "COMPLETE" -> Label("Finished")
      [] st = "FAILED" -> Label("Failed")
      [] OTHER -> Label(st)

\* utils.ts 33-42: the badge is a fill bar of the given width and the label, or
\* the label alone
badgeContentFor(st, progress, label) ==
    IF st = "WORKING" /\ progress.isNumber
    THEN [fill |-> TRUE, width |-> progress.x, label |-> label]
    ELSE [fill |-> FALSE, width |-> 0, label |-> label]

\* passes the server's value on as it is
progressValueUnclamped(item) == item.progress

\* ui.ts 162-163
progressValueOf(item) ==
    IF item.progress.isNumber
    THEN Number(Min(100 * Scale, Max(0, item.progress.x)))
    ELSE Null

\* ui.ts 158-184: the card of one item
cardOf(item) ==
    LET progressValue == progressValueOf(item)
        statusLabel == stateLabel(item.state, progressValue)
    IN  [id |-> item.id, title |-> item.title, artist |-> item.artist,
         badge |-> badgeContentFor(item.state, progressValue, statusLabel)]

renderQueue(w) ==
    IF Len(w.st.queue) = 0
    THEN [w EXCEPT !.dom.cards = <<>>, !.dom.active = {}]
    ELSE [w EXCEPT !.dom.cards = [k \in 1..Len(w.st.queue) |-> cardOf(w.st.queue[k])],
                   !.dom.active = {k \in 1..Len(w.st.queue) :
                                       w.st.queue[k].id = w.st.preview.id}]

\* ui.ts 111-140: busy banner, url error, url status
renderGlobals(w) ==
    [w EXCEPT !.dom.busyStatus = IF w.st.isBusy
                                 THEN (IF w.st.busyMessage # "" THEN w.st.busyMessage ELSE "Loading...")
                                 ELSE "",
              !.dom.urlError = w.st.urlError,
              !.dom.urlStatus = IF w.st.isAdding THEN "Loading..." ELSE ""]

render(w) == renderQueue(syncPreviewPlayer(renderGlobals(w), FALSE))

-----------------------------------------------------------------------------
(* Orchestrator (main.ts) *)

\* a flag instead of a count: the first operation to finish clears the banner
setBusyNoCount(w, active, message) ==
    LET st == w.st
        st1 == IF active
               THEN [st EXCEPT !.busyCount = @ + 1,
                               !.busyMessage = IF message # "" THEN message ELSE @,
                               !.isBusy = TRUE]
               ELSE [st EXCEPT !.busyCount = Max(0, @ - 1), !.isBusy = FALSE, !.busyMessage = ""]
    IN  render([w EXCEPT !.st = st1])

\* keeps the message of the first operation while the banner is up
setBusyFirstMessage(w, active, message) ==
    LET st == w.st
        c == Max(0, st.busyCount - 1)
        st1 == IF active
               THEN [st EXCEPT !.busyCount = @ + 1,
                               !.busyMessage = IF @ = "" THEN message ELSE @,
                               !.isBusy = TRUE]
               ELSE [st EXCEPT !.busyCount = c,
                               !.isBusy = IF c = 0 THEN FALSE ELSE @,
                               !.busyMessage = IF c = 0 THEN "" ELSE @]
    IN  render([w EXCEPT !.st = st1])

setBusy(w, active, message) ==
    LET st == w.st
        c == Max(0, st.busyCount - 1)
        st1 == IF active
               THEN [st EXCEPT !.busyCount = @ + 1,
                               !.busyMessage = IF message # "" THEN message ELSE @,
                               !.isBusy = TRUE]
               ELSE [st EXCEPT !.busyCount = c,
                               !.isBusy = IF c = 0 THEN FALSE ELSE @,
                               !.busyMessage = IF c = 0 THEN "" ELSE @]
    IN  render([w EXCEPT !.st = st1])

\* starts the player again on every refresh
loadQueueReplays(w, res, snap) ==
    IF res # "ok" THEN w
    ELSE LET w1 == [w EXCEPT !.st.queue = snap]
         IN  IF w1.st.preview.id # NoId /\ ~Contains(snap, w1.st.preview.id)
             THEN syncPreviewPlayer([w1 EXCEPT !.st.preview = Idle], FALSE)
             ELSE syncPreviewPlayer(w1, TRUE)

\* refuses a snapshot that brings back more than the queue holds
loadQueueGuarded(w, res, snap) ==
    IF res # "ok" \/ (Len(snap) > Len(w.st.queue) /\ w.st.queue # <<>>) THEN w
    ELSE LET w1 == [w EXCEPT !.st.queue = snap]
         IN  IF w1.st.preview.id # NoId /\ ~Contains(snap, w1.st.preview.id)
             THEN syncPreviewPlayer([w1 EXCEPT !.st.preview = Idle], FALSE)
             ELSE w1

\* takes the null of a failed fetch for an empty queue
loadQueueNoNullCheck(w, res, snap) ==
    LET w1 == [w EXCEPT !.st.queue = snap]
    IN  IF w1.st.preview.id # NoId /\ ~Contains(snap, w1.st.preview.id)
        THEN syncPreviewPlayer([w1 EXCEPT !.st.preview = Idle], FALSE)
        ELSE w1

\* replaces the queue and leaves the preview target alone
loadQueueKeepsPreview(w, res, snap) ==
    IF res # "ok" THEN w ELSE [w EXCEPT !.st.queue = snap]

\* main.ts 41-49: loadQueue once fetchQueue has answered; res = "ok" carries snap,
\* res = "fail" is the null of a non-success response
loadQueue(w, res, snap) ==
    IF res # "ok" THEN w
    ELSE LET w1 == [w EXCEPT !.st.queue = snap]
         IN  IF w1.st.preview.id # NoId /\ ~Contains(snap, w1.st.preview.id)
             THEN syncPreviewPlayer([w1 EXCEPT !.st.preview = Idle], FALSE)
             ELSE w1

\* `await loadQueue(); renderQueue();` -- renderQueue is skipped when the fetch raised
loadQueueThenRender(w, res, snap) ==
    IF res = "throw" THEN w ELSE renderQueue(loadQueue(w, res, snap))

\* main.ts 197-201
addQueueFinally(w) ==
    LET w1 == setBusy(w, FALSE, "")
    IN  render([w1 EXCEPT !.st.isAdding = FALSE])

\* ends without giving the counter back
importQueueFinallyLeaks(w) == render(w)

\* main.ts 236-238
importQueueFinally(w) == setBusy(w, FALSE, "")

\* main.ts 187-189, up to the await of postAddQueue
addQueueStart(w) ==
    setBusy(render([w EXCEPT !.st.isAdding = TRUE]), TRUE, MsgAdd)

\* main.ts 228
importQueueStart(w) == setBusy(w, TRUE, MsgImport)

\* main.ts 262-263
previewApply(w, id, url) ==
    syncPreviewPlayer([w EXCEPT !.st.preview = [id |-> id, url |-> url]], TRUE)

\* takes the target although fetchPreview came back without data
previewItemThenUnchecked(w, id, res, url) ==
    IF res = "throw" THEN w ELSE previewApply(w, id, url)

\* main.ts 258-263: previewItem once fetchPreview has answered
previewItemThen(w, id, res, url) ==
    IF res = "ok" THEN previewApply(w, id, url) ELSE w

-----------------------------------------------------------------------------
(* Async operations in flight.  pc is the await the operation is suspended *)
(* at: "mutate" (postAddQueue, postImportQueue, deleteQueueItem,           *)
(* postClearQueue), "preview" (fetchPreview), "fetch" (fetchQueue, request *)
(* on its way to the backend) and "fetched" (fetchQueue, the response is   *)
(* on its way back: res, and snap when res = "ok").                        *)

Kinds == {"add", "import", "delete", "clear", "poll", "boot", "preview", "update"}
Blocking == {"add", "import"}
Mutating == {"add", "import", "delete", "clear"}
ClearModes == {"complete", "failed", "all"}
Outcomes == {"ok", "fail", "throw"}

Task(kind, pc, id) ==
    [kind |-> kind, pc |-> pc, id |-> id, via |-> "", payload |-> {},
     res |-> "", snap |-> <<>>]

\* an updateQueue awaiting postUpdateQueue(id, payload); the payload is the set of
\* the fields it carries, each with its value
UpdateTask(id, payload) == [Task("update", "update", id) EXCEPT !.payload = payload]

\* an addQueue awaited by the click handler ("click") or the keydown handler ("key")
AddTask(via) == [Task("add", "mutate", NoId) EXCEPT !.via = via]

\* the step just taken: the handler or continuation, the operation it belongs to,
\* how it went, and the calls it made on the audio element
Ev(op, kind, res, fx) == [op |-> op, kind |-> kind, res |-> res, fx |-> fx]

Room == Len(tasks) < MaxTasks

\* no operation looks at the response
refetchAfterUnchecked(kind, res) == res # "throw"

\* every operation looks at the response
refetchAfterChecked(kind, res) == res = "ok"

\* main.ts 192-195 / 231-234 (`if (!ok) return;`) and 209-210 / 215-216 (no check):
\* whether the continuation of the mutating request goes on to loadQueue()
refetchAfter(kind, res) ==
    IF kind \in {"add", "import"} THEN res = "ok" ELSE res # "throw"

\* main.ts 32-37: Promise.all over the three startup loads, then render() and
\* setInterval; once it has rejected or fulfilled, later settlements change nothing
bootJoin(b, w) ==
    IF b.pc # "loading" THEN [boot |-> b, w |-> w]
    ELSE IF "throw" \in {b.queue, b.others}
         THEN [boot |-> [queue |-> "-", others |-> "-", pc |-> "failed"], w |-> w]
    ELSE IF "pending" \in {b.queue, b.others}
         THEN [boot |-> b, w |-> w]
    ELSE [boot |-> [queue |-> "-", others |-> "-", pc |-> "done"], w |-> render(w)]

\* one of the startup loads settles; Promise.all no longer listens once it is settled
bootSettle(b, load, res) == IF b.pc = "loading" THEN [b EXCEPT ![load] = res] ELSE b

\* main.ts 34: the interval exists once bootstrap got past its await
intervalSet == boot.pc = "done"

-----------------------------------------------------------------------------
\* state.ts 27-39
InitState ==
    [queue |-> <<>>, preview |-> Idle, isBusy |-> FALSE, busyCount |-> 0,
     busyMessage |-> "", urlError |-> "", isAdding |-> FALSE]

\* the page as renderShell leaves it, the add-URL field holding text
InitDom(text) ==
    [urlInput |-> text, busyStatus |-> "", urlError |-> "", urlStatus |-> "",
     previewStatus |-> NoId, cards |-> <<>>, active |-> {}, playerSrc |-> NoSrc]

InitClient ==
    /\ state = InitState
    /\ dom = InitDom(EmptyText)
    /\ tasks = <<Task("boot", "fetch", NoId)>>
    /\ boot = [queue |-> "pending", others |-> "pending", pc |-> "loading"]
    /\ quiesced = FALSE
    /\ ev = Ev("Init", "", "", NoFx)

\* the page is loaded against a backend holding fresh items
Init ==
    /\ InitClient
    /\ \E n \in {MaxIds - 1, MaxIds} :
          server = [queue |-> [k \in 1..n |-> NewItem(k)], nextId |-> n + 1]

\* the page is loaded against a backend holding one fresh item
InitOne ==
    /\ InitClient
    /\ server = [queue |-> <<NewItem(1)>>, nextId |-> 2]

\* the same, with a valid address already in the add-URL field
InitPreview ==
    /\ state = InitState
    /\ dom = InitDom(WatchText)
    /\ tasks = <<Task("boot", "fetch", NoId)>>
    /\ boot = [queue |-> "pending", others |-> "pending", pc |-> "loading"]
    /\ quiesced = FALSE
    /\ ev = Ev("Init", "", "", NoFx)
    /\ server = [queue |-> <<NewItem(1)>>, nextId |-> 2]

\* what can stand in the add-URL field: something `new URL` rejects, or any mix
\* of scheme, host, path and `v` parameter
Protocols == {"http:", "https:", "ftp:"}
Hostnames == {"youtu.be", "www.youtube.com", "youtube.com", "m.youtube.com",
              "music.youtube.com", "example.com"}
Pathnames == {<<"/">>, <<"/", "watch">>, <<"/", "watching">>, <<"/", "abc123">>,
              <<"/", "embed", "/", "abc123">>}
UrlInputs ==
    {EmptyText, BlankText, GarbageText} \cup
    {Text(pad, TRUE, TRUE, protocol, hostname, pathname, v) :
        pad \in BOOLEAN, protocol \in Protocols, hostname \in Hostnames,
        pathname \in Pathnames, v \in {"absent", "empty", "value"}}

\* the page is loaded and the add-URL field holds any of these texts
InitUrl ==
    /\ state = InitState
    /\ \E text \in UrlInputs : dom = InitDom(text)
    /\ tasks = <<Task("boot", "fetch", NoId)>>
    /\ boot = [queue |-> "pending", others |-> "pending", pc |-> "loading"]
    /\ quiesced = FALSE
    /\ ev = Ev("Init", "", "", NoFx)
    /\ server = [queue |-> <<NewItem(1)>>, nextId |-> 2]

\* progress values around both ends of 0..100, and the examples 42.6 and 137
ProgressInputs ==
    {Null} \cup
    {Number(x) : x \in ((0 - MaxOver) * Scale)..(MaxOver * Scale)
                       \cup ((100 - MaxOver) * Scale)..((100 + MaxOver) * Scale)
                       \cup {426, 1370}}

\* the page is loaded against a backend holding one item in any state, with any
\* progress
InitRender ==
    /\ InitClient
    /\ \E st \in States, progress \in ProgressInputs :
          server = [queue |-> <<Item(1, st, progress, "t0", "t0")>>, nextId |-> 2]

Commit(w) ==
    /\ state' = w.st
    /\ dom' = w.dom

W == World(state, dom)

-----------------------------------------------------------------------------
(* User events and the timer *)

\* the user edits the add-URL field
TypeUrl(text) ==
    /\ dom.urlInput # text
    /\ dom' = [dom EXCEPT !.urlInput = text]
    /\ ev' = Ev("TypeUrl", "", "", NoFx)
    /\ UNCHANGED <<state, tasks, boot, server, quiesced>>

\* goes on to addQueue with the error of an earlier submission still set
submitValidKeepsError(w) == addQueueStart(w)

\* main.ts 91-92 / 109-110: the error is cleared, then addQueue runs to the await
\* of postAddQueue
submitValid(w) == addQueueStart([w EXCEPT !.st.urlError = ""])

\* main.ts 87-88 / 105-106
submitInvalid(w) == render([w EXCEPT !.st.urlError = MsgUrlError])

\* main.ts 78-92: the click handler of the Add button up to the await inside
\* addQueue: what it makes of the page and of the operations in flight
addBtnClick(w, ts) ==
    LET value == trim(w.dom.urlInput) IN
    IF ~value.chars THEN [w |-> w, tasks |-> ts, kind |-> "", res |-> "empty"]
    ELSE IF ~isValidYoutubeUrl(value)
    THEN [w |-> submitInvalid(w), tasks |-> ts, kind |-> "", res |-> "invalid"]
    ELSE [w |-> submitValid(w), tasks |-> Append(ts, AddTask("click")), kind |-> "add",
          res |-> IF w.st.urlError # "" THEN "recovered" ELSE "valid"]

\* skips the trim of the field's value
urlInputKeydownNoTrim(key, w, ts) ==
    LET value == w.dom.urlInput IN
    IF key # "Enter" THEN [w |-> w, tasks |-> ts, kind |-> "", res |-> "ignored"]
    ELSE IF ~(value.chars \/ value.pad) THEN [w |-> w, tasks |-> ts, kind |-> "", res |-> "empty"]
    ELSE IF ~isValidYoutubeUrl(value)
    THEN [w |-> submitInvalid(w), tasks |-> ts, kind |-> "", res |-> "invalid"]
    ELSE [w |-> submitValid(w), tasks |-> Append(ts, AddTask("key")), kind |-> "add",
          res |-> IF w.st.urlError # "" THEN "recovered" ELSE "valid"]

\* main.ts 96-110: the keydown handler of the add-URL field up to the await inside
\* addQueue
urlInputKeydown(key, w, ts) ==
    LET value == trim(w.dom.urlInput) IN
    IF key # "Enter" THEN [w |-> w, tasks |-> ts, kind |-> "", res |-> "ignored"]
    ELSE IF ~value.chars THEN [w |-> w, tasks |-> ts, kind |-> "", res |-> "empty"]
    ELSE IF ~isValidYoutubeUrl(value)
    THEN [w |-> submitInvalid(w), tasks |-> ts, kind |-> "", res |-> "invalid"]
    ELSE [w |-> submitValid(w), tasks |-> Append(ts, AddTask("key")), kind |-> "add",
          res |-> IF w.st.urlError # "" THEN "recovered" ELSE "valid"]

\* main.ts 78-94: click on Add
AddBtnClick ==
    LET r == addBtnClick(W, tasks) IN
    /\ r.kind = "add" => Room /\ ~quiesced
    /\ Commit(r.w)
    /\ tasks' = r.tasks
    /\ ev' = Ev("AddBtnClick", r.kind, r.res, r.w.fx)
    /\ UNCHANGED <<boot, server, quiesced>>

\* main.ts 96-112: a key goes down in the add-URL field
UrlInputKeydown(key) ==
    LET r == urlInputKeydown(key, W, tasks) IN
    /\ r.kind = "add" => Room /\ ~quiesced
    /\ Commit(r.w)
    /\ tasks' = r.tasks
    /\ ev' = Ev("UrlInputKeydown", r.kind, r.res, r.w.fx)
    /\ UNCHANGED <<boot, server, quiesced>>

\* main.ts 138-142 and importQueue up to the await of postImportQueue
ImportInputChange(hasFile) ==
    IF ~hasFile
    THEN /\ ev' = Ev("ImportInputChange", "", "ignored", NoFx)
         /\ UNCHANGED <<state, dom, tasks, boot, server, quiesced>>
    ELSE LET w == importQueueStart(W) IN
         /\ Room /\ ~quiesced
         /\ Commit(w)
         /\ tasks' = Append(tasks, Task("import", "mutate", NoId))
         /\ ev' = Ev("ImportInputChange", "import", "", w.fx)
         /\ UNCHANGED <<boot, server, quiesced>>

\* main.ts 146-148, clearQueue up to the await of postClearQueue; the mode goes
\* to the backend only
ClearClick(mode) ==
    /\ Room /\ ~quiesced
    /\ tasks' = Append(tasks, Task("clear", "mutate", NoId))
    /\ ev' = Ev("ClearClick", "clear", "", NoFx)
    /\ UNCHANGED <<state, dom, boot, server, quiesced>>

\* main.ts 152-165: a click on the Preview or Remove button of the k-th rendered
\* card, up to the await of fetchPreview / deleteQueueItem
QueueSectionClick(k, button) ==
    /\ k \in 1..Len(dom.cards)
    /\ Room
    /\ button = "delete" => ~quiesced
    /\ tasks' = Append(tasks, IF button = "preview"
                               THEN Task("preview", "preview", dom.cards[k].id)
                               ELSE Task("delete", "mutate", dom.cards[k].id))
    /\ ev' = Ev("QueueSectionClick", button, "", NoFx)
    /\ UNCHANGED <<state, dom, boot, server, quiesced>>

\* main.ts 167-183: the title or artist input of the k-th rendered card, holding
\* value, loses focus: what the handler adds to the operations in flight
queueSectionFocusout(ts, card, field, value) ==
    LET ts1 == IF field = "title"
               THEN Append(ts, UpdateTask(card.id, {<<"title", value>>}))
               ELSE ts
    IN  IF field = "artist"
        THEN Append(ts1, UpdateTask(card.id, {<<"artist", value>>}))
        ELSE ts1

\* the user has edited the field of the k-th card to value and leaves it; the
\* input keeps what was typed until the section is rendered again
FocusOut(k, field, value) ==
    /\ k \in 1..Len(dom.cards)
    /\ Room /\ ~quiesced
    /\ tasks' = queueSectionFocusout(tasks, dom.cards[k], field, value)
    /\ dom' = [dom EXCEPT !.cards[k][field] = value]
    /\ ev' = Ev("FocusOut", "update", "", NoFx)
    /\ UNCHANGED <<state, boot, server, quiesced>>

\* main.ts 34-37: the interval fires; the callback runs to the await in fetchQueue
PollTick ==
    /\ intervalSet
    /\ Room
    /\ tasks' = Append(tasks, Task("poll", "fetch", NoId))
    /\ ev' = Ev("PollTick", "poll", "", NoFx)
    /\ UNCHANGED <<state, dom, boot, server, quiesced>>

-----------------------------------------------------------------------------
(* The backend behind the transport layer (api.ts).  "ok" is a success     *)
(* response, "fail" a non-success status, "throw" a rejected fetch (the    *)
(* request may or may not have been carried out).                          *)

FreshIds(n) == [k \in 1..n |-> NewItem(server.nextId + k - 1)]

\* the server's queue after a mutating request was carried out
ServerEffects(t) ==
    CASE t.kind = "add" ->
           IF server.nextId <= MaxIds
           THEN {[queue |-> Append(server.queue, NewItem(server.nextId)),
                  nextId |-> server.nextId + 1]}
           ELSE {}
      [] t.kind = "import" ->
           {[queue |-> server.queue \o FreshIds(n), nextId |-> server.nextId + n] :
                n \in 0..(MaxIds + 1 - server.nextId)}
      [] t.kind = "delete" ->
           {[server EXCEPT !.queue = Without(server.queue, {t.id})]}
      [] t.kind = "clear" ->
           {[server EXCEPT !.queue = Without(server.queue, S)] : S \in SUBSET SetOf(server.queue)}
      [] t.kind = "update" ->
           {[server EXCEPT !.queue =
                [k \in 1..Len(server.queue) |->
                    IF server.queue[k].id = t.id
                    THEN [f \in DOMAIN server.queue[k] |->
                             IF \E p \in t.payload : p[1] = f
                             THEN (CHOOSE p \in t.payload : p[1] = f)[2]
                             ELSE server.queue[k][f]]
                    ELSE server.queue[k]]]}
      [] OTHER -> {}

\* GET /api/queue is served: the snapshot is the server's queue at that time
ServerFetchQueue(i) ==
    /\ i \in 1..Len(tasks)
    /\ tasks[i].pc = "fetch"
    /\ \E res \in Outcomes :
          /\ quiesced => res = "ok"
          /\ tasks' = [tasks EXCEPT ![i].pc = "fetched", ![i].res = res,
                                    ![i].snap = IF res = "ok" THEN server.queue ELSE <<>>]
    /\ ev' = Ev("ServerFetchQueue", "", "", NoFx)
    /\ UNCHANGED <<state, dom, boot, server, quiesced>>

-----------------------------------------------------------------------------
(* Continuations: a response arrives and the awaiting code runs on to its  *)
(* next await or to its end.                                               *)

\* the click handler's `urlInput.value = ""` after `await addQueue(value)` (main.ts
\* 92-93): reached unless addQueue rejected
clearUrlInput(w, raised) ==
    IF raised THEN w ELSE [w EXCEPT !.dom.urlInput = EmptyText]

\* the same statement of the keydown handler (main.ts 110-111)
clearUrlInputOnEnter(w, raised) ==
    IF raised THEN w ELSE [w EXCEPT !.dom.urlInput = EmptyText]

\* addQueue has returned to the handler that awaits it
afterAddQueue(t, w, raised) ==
    IF t.via = "key" THEN clearUrlInputOnEnter(w, raised) ELSE clearUrlInput(w, raised)

\* loadVersion() and loadDefaultDir() (main.ts 52-62) of bootstrap's Promise.all:
\* both fulfilled ("ok"; a non-success response fulfils too) or one rejected ("throw")
LoadOthersSettle(res) ==
    /\ boot.others = "pending"
    /\ LET j == bootJoin(bootSettle(boot, "others", res), W) IN
          /\ boot' = j.boot
          /\ Commit(j.w)
          /\ ev' = Ev("LoadOthersSettle", "boot", res, j.w.fx)
    /\ UNCHANGED <<tasks, server, quiesced>>

\* the backend handles the mutating request and the response of postAddQueue /
\* postImportQueue / deleteQueueItem / postClearQueue reaches its continuation
MutateResponse(i) ==
    /\ i \in 1..Len(tasks)
    /\ tasks[i].pc = "mutate"
    /\ \E res \in Outcomes, carried \in BOOLEAN :
        LET t == tasks[i] IN
          /\ res = "ok" => carried
          /\ res = "fail" => ~carried
          /\ IF carried THEN server' \in ServerEffects(t) ELSE server' = server
          /\ IF refetchAfter(t.kind, res)
             THEN /\ tasks' = [tasks EXCEPT ![i].pc = "fetch"]
                  /\ ev' = Ev("MutateResponse", t.kind, res, NoFx)
                  /\ UNCHANGED <<state, dom>>
             ELSE LET w == CASE t.kind = "add" -> afterAddQueue(t, addQueueFinally(W), res = "throw")
                             [] t.kind = "import" -> importQueueFinally(W)
                             [] OTHER -> W
                  IN  /\ tasks' = RemoveAt(tasks, i)
                      /\ Commit(w)
                      /\ ev' = Ev("MutateResponse", t.kind, res, w.fx)
    /\ UNCHANGED <<boot, quiesced>>

\* the response of fetchQueue: loadQueue's continuation, then its caller's; the
\* step is noted as "stale" when the snapshot is not the backend's queue any more
\* while the client's queue is
DeliverFetch(i) ==
    /\ i \in 1..Len(tasks)
    /\ tasks[i].pc = "fetched"
    /\ LET t == tasks[i]
           raised == t.res = "throw"
           stale == t.res = "ok" /\ state.queue = server.queue /\ t.snap # server.queue
           w1 == IF t.kind = "boot" THEN loadQueue(W, t.res, t.snap)
                 ELSE loadQueueThenRender(W, t.res, t.snap)
           w2 == CASE t.kind = "add" -> afterAddQueue(t, addQueueFinally(w1), raised)
                   [] t.kind = "import" -> importQueueFinally(w1)
                   [] OTHER -> w1
           j == IF t.kind = "boot"
                THEN bootJoin(bootSettle(boot, "queue", IF raised THEN "throw" ELSE "ok"), w2)
                ELSE [boot |-> boot, w |-> w2]
       IN  /\ tasks' = RemoveAt(tasks, i)
           /\ boot' = j.boot
           /\ Commit(j.w)
           /\ ev' = Ev("DeliverFetch", t.kind, IF stale THEN "stale" ELSE t.res, j.w.fx)
    /\ UNCHANGED <<server, quiesced>>

\* goes on to loadQueue() as deleteItem does
refetchAfterUpdateAsDelete(res) == res # "throw"

\* main.ts 204-206: nothing follows the await of postUpdateQueue
refetchAfterUpdate(res) == FALSE

\* the backend handles the update request and the response of postUpdateQueue
\* reaches updateQueue
UpdateResponse(i) ==
    /\ i \in 1..Len(tasks)
    /\ tasks[i].pc = "update"
    /\ \E res \in Outcomes, carried \in BOOLEAN :
          /\ res = "ok" => carried
          /\ res = "fail" => ~carried
          /\ IF carried THEN server' \in ServerEffects(tasks[i]) ELSE server' = server
          /\ tasks' = IF refetchAfterUpdate(res)
                      THEN [tasks EXCEPT ![i].pc = "fetch"]
                      ELSE RemoveAt(tasks, i)
          /\ ev' = Ev("UpdateResponse", "update", res, NoFx)
    /\ UNCHANGED <<state, dom, boot, quiesced>>

\* the response of fetchPreview: previewItem's continuation (main.ts 258-263);
\* res = "same" is a success response for the id and url that are current
PreviewResponse(i) ==
    /\ i \in 1..Len(tasks)
    /\ tasks[i].pc = "preview"
    /\ \E res \in Outcomes, url \in Urls :
        LET t == tasks[i]
            w == previewItemThen(W, t.id, res, url)
            same == res = "ok" /\ state.preview = [id |-> t.id, url |-> url]
        IN  /\ tasks' = RemoveAt(tasks, i)
            /\ Commit(w)
            /\ ev' = Ev("PreviewResponse", "preview", IF same THEN "same" ELSE res, w.fx)
    /\ UNCHANGED <<boot, server, quiesced>>

\* environment: from here on no user mutation and no failing queue fetch
Quiesce ==
    /\ ~quiesced
    /\ quiesced' = TRUE
    /\ ev' = Ev("Quiesce", "", "", NoFx)
    /\ UNCHANGED <<state, dom, tasks, boot, server>>

-----------------------------------------------------------------------------
(* Specifications.  The handlers are the same in all of them; each takes   *)
(* the events of one part of the page, so that operations can overlap      *)
(* within the bounds.                                                      *)

Transport ==
    \/ \E i \in 1..MaxTasks : ServerFetchQueue(i)
    \/ \E i \in 1..MaxTasks : DeliverFetch(i)
    \/ \E res \in {"ok", "throw"} : LoadOthersSettle(res)

\* the add-URL field and the import input: the blocking operations
NextAdd ==
    \/ \E text \in InputTexts : TypeUrl(text)
    \/ AddBtnClick
    \/ \E key \in {"Enter", "a"} : UrlInputKeydown(key)
    \/ \E hasFile \in BOOLEAN : ImportInputChange(hasFile)
    \/ PollTick
    \/ \E i \in 1..MaxTasks : MutateResponse(i)
    \/ Transport

\* the queue section: polling, delete, clear and preview
NextQueue ==
    \/ \E mode \in ClearModes : ClearClick(mode)
    \/ \E k \in 1..MaxIds, button \in {"preview", "delete"} : QueueSectionClick(k, button)
    \/ PollTick
    \/ \E i \in 1..MaxTasks : MutateResponse(i)
    \/ \E i \in 1..MaxTasks : PreviewResponse(i)
    \/ Transport

\* the four mutating actions side by side
NextMutations ==
    \/ TypeUrl(ShortPadText)
    \/ AddBtnClick
    \/ ImportInputChange(TRUE)
    \/ \E mode \in ClearModes : ClearClick(mode)
    \/ \E k \in 1..MaxIds : QueueSectionClick(k, "delete")
    \/ \E i \in 1..MaxTasks : MutateResponse(i)
    \/ Transport

\* polling against user deletes, until the environment quiesces
NextLive ==
    \/ \E k \in 1..MaxIds : QueueSectionClick(k, "delete")
    \/ PollTick
    \/ Quiesce
    \/ \E i \in 1..MaxTasks : MutateResponse(i)
    \/ Transport

\* every request is answered and every answer delivered; the interval, once set,
\* keeps firing
Fairness ==
    /\ WF_vars(PollTick)
    /\ WF_vars(Quiesce)
    /\ WF_vars(\E res \in {"ok", "throw"} : LoadOthersSettle(res))
    /\ \A i \in 1..MaxTasks :
          /\ WF_vars(ServerFetchQueue(i))
          /\ WF_vars(DeliverFetch(i))
          /\ WF_vars(MutateResponse(i))

\* startup and polling alone: what the page shows of the backend's items
NextRender ==
    \/ PollTick
    \/ Transport

SpecRender == InitRender /\ [][NextRender]_vars

\* editing titles and artists on the cards while the page polls
NextEdit ==
    \/ \E k \in 1..MaxIds, field \in {"title", "artist"}, value \in Titles :
          FocusOut(k, field, value)
    \/ \E i \in 1..MaxTasks : UpdateResponse(i)
    \/ PollTick
    \/ Transport

SpecEdit == InitOne /\ [][NextEdit]_vars

\* nothing but previews is in flight
OnlyPreviews == \A i \in 1..Len(tasks) : tasks[i].kind = "preview"

\* everything the user and the timer can do around a preview: previews overlap
\* every other operation, the other operations follow one another; title inputs
\* are left as they were found
NextPreview ==
    \/ OnlyPreviews /\ AddBtnClick
    \/ OnlyPreviews /\ ImportInputChange(TRUE)
    \/ OnlyPreviews /\ ClearClick("all")
    \/ OnlyPreviews /\ \E k \in 1..MaxIds : QueueSectionClick(k, "delete")
    \/ OnlyPreviews /\ \E k \in 1..MaxIds : FocusOut(k, "title", "t0")
    \/ OnlyPreviews /\ PollTick
    \/ \E k \in 1..MaxIds : QueueSectionClick(k, "preview")
    \/ \E i \in 1..MaxTasks : MutateResponse(i)
    \/ \E i \in 1..MaxTasks : UpdateResponse(i)
    \/ \E i \in 1..MaxTasks : PreviewResponse(i)
    \/ Transport

SpecPreview == InitPreview /\ [][NextPreview]_vars

\* the text in the field is submitted, by click or by Enter
NextUrl ==
    \/ AddBtnClick
    \/ UrlInputKeydown("Enter")
    \/ \E i \in 1..MaxTasks : MutateResponse(i)
    \/ Transport

SpecUrl == InitUrl /\ [][NextUrl]_vars

SpecAdd == Init /\ [][NextAdd]_vars

SpecQueue == Init /\ [][NextQueue]_vars

SpecMutations == Init /\ [][NextMutations]_vars

SpecLive == Init /\ [][NextLive]_vars /\ Fairness

Next == NextAdd \/ NextQueue

Spec == Init /\ [][Next]_vars

-----------------------------------------------------------------------------
(* Properties *)

Outstanding(kinds) == Cardinality({i \in 1..Len(tasks) : tasks[i].kind \in kinds})

NumFetch(ts) == Cardinality({i \in 1..Len(ts) : ts[i].pc = "fetch"})

\* the step issued a fetchQueue request on behalf of an operation already in flight
RefetchIssued == Len(tasks') = Len(tasks) /\ NumFetch(tasks') = NumFetch(tasks) + 1

\* the step just taken ended a blocking operation (its finally block ran)
BlockingFinished ==
    /\ ev.kind \in Blocking
    /\ \/ ev.op = "DeliverFetch"
       \/ ev.op = "MutateResponse" /\ ev.res # "ok"

SubmitOps == {"AddBtnClick", "UrlInputKeydown"}

\* what an operation in flight asked of the backend, and the requests of all of them
Request(t) == [kind |-> t.kind, pc |-> t.pc, id |-> t.id, payload |-> t.payload]

Requests(ts) == [k \in 1..Len(ts) |-> Request(ts[k])]

\* C1: while any add-to-queue or import operation is outstanding isBusy is true,
\* however many overlap and in whatever order and with whatever outcome they
\* finish; once none is outstanding isBusy is false and busyMessage is empty.
C1_BusyUntilLastFinishes ==
    /\ Outstanding(Blocking) > 0 => state.isBusy
    /\ Outstanding(Blocking) = 0 => ~state.isBusy /\ state.busyMessage = ""

\* one of two overlapping blocking operations has finished, the other has not
C1_Witness ==
    /\ BlockingFinished
    /\ Outstanding(Blocking) = 1
    /\ state.isBusy

\* C4: a queue refresh whose fetch fails (non-success or raised) leaves state.queue
\* and state.preview as they were; one whose fetch succeeds sets state.queue to
\* exactly the snapshot it returned.
C4_RefreshAppliesSnapshotOrNothing ==
    [][\A i \in 1..Len(tasks) :
          DeliverFetch(i) =>
             IF tasks[i].res = "ok"
             THEN state'.queue = tasks[i].snap
             ELSE state'.queue = state.queue /\ state'.preview = state.preview]_vars

\* a poll failed while a non-empty queue and a preview target were held, and they
\* are still there although the server's queue differs
C4_Witness ==
    /\ ev.op = "DeliverFetch" /\ ev.kind = "poll" /\ ev.res = "fail"
    /\ state.queue # <<>> /\ state.queue # server.queue
    /\ state.preview.id # NoId

\* C2 as stated: whatever the outcome of the mutate request of an add, delete,
\* clear or import, its continuation issues the queue refetch.
C2_RefetchUnconditional ==
    [][ev'.op = "MutateResponse" => RefetchIssued]_vars

\* C2, amended: an operation of a mutating kind starts with its mutate request; the
\* refetch is issued in the continuation of that request, for delete and clear
\* whenever the request was answered (success or not), for add and import only on
\* a success response, and never when the request raised; when the refetch is
\* answered, state.queue is the snapshot (if one came) and the queue section is
\* re-rendered from state.queue in the same step.
C2_MutateThenRefetchThenRender ==
    [][/\ Len(tasks') > Len(tasks) /\ tasks'[Len(tasks')].kind \in Mutating
            => tasks'[Len(tasks')].pc = "mutate"
       /\ \A i \in 1..Len(tasks) :
            MutateResponse(i) =>
               (RefetchIssued <=>
                   IF tasks[i].kind \in {"add", "import"}
                   THEN ev'.res = "ok" ELSE ev'.res \in {"ok", "fail"})
       /\ \A i \in 1..Len(tasks) :
            DeliverFetch(i) /\ tasks[i].kind \in Mutating /\ tasks[i].res # "throw"
               => /\ tasks[i].res = "ok" => state'.queue = tasks[i].snap
                  /\ IdsOf(dom'.cards) = IdsOf(state'.queue)]_vars

\* a delete got a non-success response and its refetch is on its way all the same
C2_Witness ==
    /\ ev.op = "MutateResponse" /\ ev.kind = "delete" /\ ev.res = "fail"
    /\ \E i \in 1..Len(tasks) : tasks[i].kind = "delete" /\ tasks[i].pc = "fetch"

\* C3 as stated: a non-success response to the request of an add, delete, clear or
\* import issues no refetch and leaves state.queue as it was.
C3_FailedWriteIsNoOp ==
    [][ev'.op = "MutateResponse" /\ ev'.res = "fail"
          => ~RefetchIssued /\ state'.queue = state.queue]_vars

\* C3, amended: a non-success response to postAddQueue or postImportQueue ends the
\* operation with no refetch and state.queue as it was; a non-success response to
\* deleteQueueItem or postClearQueue is not looked at and the refetch is issued.
C3_FailedAddOrImportIsNoOp ==
    [][\A i \in 1..Len(tasks) :
          MutateResponse(i) /\ ev'.res = "fail"
             => IF tasks[i].kind \in {"add", "import"}
                THEN /\ ~RefetchIssued
                     /\ Len(tasks') = Len(tasks) - 1
                     /\ state'.queue = state.queue
                ELSE RefetchIssued /\ state'.queue = state.queue]_vars

\* an add got a non-success response while the server held more than the client
\* shows: nothing was fetched on its behalf
C3_Witness ==
    /\ ev.op = "MutateResponse" /\ ev.kind = "add" /\ ev.res = "fail"
    /\ tasks = <<>>
    /\ state.queue # server.queue

\* C5: polling runs for the whole page lifetime: once bootstrap has moved past its
\* startup loads, whatever their outcome, the interval keeps issuing poll ticks
\* (a tick is possible whenever there is room for one more request).
C5_PollingSurvivesFailures ==
    boot.pc # "loading" /\ Room => ENABLED PollTick

\* C6: once the environment has quiesced (the server's queue stops changing, queue
\* fetches succeed), state.queue eventually equals the server's queue for good.
C6_EventuallyConsistent ==
    <>quiesced => <>[](state.queue = server.queue)

\* C7: applying a fetched snapshot that lacks the id of the preview target makes
\* preview Idle and clears the audio player's source in the same step; when it is
\* the refetch of a delete of that id, the id is also gone from the rendered queue.
C7_PreviewResetWhenTargetGone ==
    [][\A i \in 1..Len(tasks) :
          /\ DeliverFetch(i)
          /\ tasks[i].res = "ok"
          /\ state.preview.id # NoId
          /\ ~Contains(tasks[i].snap, state.preview.id)
          => /\ state'.preview = Idle
             /\ dom'.playerSrc = NoSrc
             /\ dom'.previewStatus = NoId
             /\ tasks[i].kind = "delete" /\ tasks[i].id = state.preview.id
                   => ~Contains(dom'.cards, tasks[i].id) /\ dom'.active = {}]_vars

\* the refetch of a delete has just removed the source of a playing preview
C7_Witness ==
    /\ ev.op = "DeliverFetch" /\ ev.kind = "delete" /\ ev.res = "ok"
    /\ ev.fx.srcClears = 1
    /\ state.preview = Idle /\ dom.playerSrc = NoSrc

\* C8: a preview response for the id that is already the target, with the url that
\* is already current, does not assign the audio player's source.
C8_PreviewIdempotent ==
    [][ev'.op = "PreviewResponse" /\ ev'.res = "same"
          => /\ dom'.playerSrc = dom.playerSrc
             /\ ev'.fx.srcWrites = 0 /\ ev'.fx.srcClears = 0
             /\ state'.preview = state.preview]_vars

\* the same item was previewed again: play was requested, the source not assigned
C8_Witness ==
    /\ ev.op = "PreviewResponse" /\ ev.res = "same"
    /\ ev.fx.plays = 1 /\ ev.fx.srcWrites = 0
    /\ dom.playerSrc = nextSrcOf(state.preview) /\ dom.playerSrc # NoSrc

\* C9: isAdding is true exactly when an add-to-queue operation is outstanding.
C9_IsAddingIffAddOutstanding ==
    state.isAdding <=> Outstanding({"add"}) > 0

\* C10: a non-empty submission that fails validation sets urlError, issues no add
\* request and changes neither queue, busyCount nor isAdding; a submission that
\* passes validation clears urlError in the step that issues the add request; and
\* what is rendered as the error is always state.urlError.
C10_UrlErrorSetAndCleared ==
    [][/\ ev'.op \in SubmitOps /\ ev'.res # "ignored" /\ trim(dom.urlInput).chars
            => IF isValidYoutubeUrl(trim(dom.urlInput))
               THEN /\ state'.urlError = ""
                    /\ Requests(tasks') = Append(Requests(tasks), Request(AddTask("")))
               ELSE /\ state'.urlError # ""
                    /\ tasks' = tasks
                    /\ state'.queue = state.queue
                    /\ state'.busyCount = state.busyCount
                    /\ state'.isAdding = state.isAdding
       /\ dom'.urlError = state'.urlError]_vars

\* a valid submission has cleared the error a rejected one had left, and its add
\* request is in flight
C10_Witness ==
    /\ ev.op \in SubmitOps /\ ev.res = "recovered"
    /\ state.urlError = "" /\ dom.urlError = ""
    /\ Outstanding({"add"}) > 0

\* C11: from every state and for every text in the add-URL field, the click on Add
\* and the Enter keypress leave the same ClientState and page, issue the same
\* requests and go on in the same way when addQueue returns; any other key changes
\* nothing and issues nothing.
C11_ClickEqualsEnter ==
    LET c == addBtnClick(W, tasks)
        k == urlInputKeydown("Enter", W, tasks)
        o == urlInputKeydown("a", W, tasks)
    IN  /\ c.w = k.w
        /\ Requests(c.tasks) = Requests(k.tasks)
        /\ c.res = k.res
        /\ \A raised \in BOOLEAN :
              clearUrlInput(addQueueFinally(W), raised)
                 = clearUrlInputOnEnter(addQueueFinally(W), raised)
        /\ o.w = W /\ o.tasks = tasks

\* an add submitted by click and one submitted by Enter are in flight together,
\* the field holding a padded text
C11_Witness ==
    /\ \E i, j \in 1..Len(tasks) : tasks[i].via = "click" /\ tasks[j].via = "key"
    /\ dom.urlInput.pad

\* what the label of an item in state st with the given progress has to be
LabelTable(st, progress, label) ==
    CASE st = "WAITING" -> label = Label("Pending")
      [] st = "COMPLETE" -> label = Label("Finished")
      [] st = "FAILED" -> label = Label("Failed")
      [] st = "WORKING" /\ ~progress.isNumber -> label = Label("0%")
      [] st = "WORKING" /\ progress.isNumber /\ progress.x >= 100 * Scale ->
           label = Label("Saving")
      [] st = "WORKING" /\ progress.isNumber /\ progress.x < 100 * Scale ->
           /\ label.text = "%"
           /\ 2 * (label.n * Scale - progress.x) <= Scale
           /\ 2 * (progress.x - label.n * Scale) <= Scale

\* C12: stateLabel gives every (state, progress) pair the label of the table:
\* "Pending", "0%" without numeric progress, "Saving" from 100 on, the nearest
\* integer followed by "%" below 100, "Finished", "Failed"; and the label on a
\* rendered card is the one stateLabel gives for what renderQueue passes to it.
C12_StateLabelTable ==
    /\ \A st \in States, progress \in ProgressInputs :
          LabelTable(st, progress, stateLabel(st, progress))
    /\ \A k \in 1..Len(dom.cards) :
          dom.cards[k].badge.label
             = stateLabel(state.queue[k].state, progressValueOf(state.queue[k]))

\* the item with progress 42.6 is on the page with "43%"
C12_Witness ==
    \E k \in 1..Len(dom.cards) :
       /\ state.queue[k].state = "WORKING" /\ state.queue[k].progress = Number(426)
       /\ dom.cards[k].badge.label = Percent(43)

\* C13: the card of a WORKING item with numeric progress p has a fill bar of width
\* max(0, min(100, p)) and the label of that clamped value; every other card has
\* its label and no fill bar.
C13_ProgressClamped ==
    \A k \in 1..Len(dom.cards) :
       LET item == state.queue[k]
           badge == dom.cards[k].badge
           p == item.progress.x
           clamped == IF p < 0 THEN 0 ELSE IF p > 100 * Scale THEN 100 * Scale ELSE p
       IN  IF item.state = "WORKING" /\ item.progress.isNumber
           THEN /\ badge.fill
                /\ badge.width = clamped
                /\ LabelTable("WORKING", Number(clamped), badge.label)
           ELSE /\ ~badge.fill
                /\ LabelTable(item.state, Null, badge.label)

\* an item reported below 0 is on the page with an empty bar and "0%"
C13_Witness ==
    \E k \in 1..Len(dom.cards) :
       /\ state.queue[k].state = "WORKING" /\ state.queue[k].progress.x < 0
       /\ dom.cards[k].badge = [fill |-> TRUE, width |-> 0, label |-> Percent(0)]

\* C14: a submission is accepted as a valid URL only if the text parses, its scheme
\* is http or https, and its host is one of youtube.com, www.youtube.com,
\* m.youtube.com with a non-empty video id, or youtu.be with a non-empty path.
C14_ValidOnlyWithVideoId ==
    ev.op \in SubmitOps /\ ev.res \in {"valid", "recovered"}
       => LET value == trim(dom.urlInput) IN
          /\ value.parses
          /\ value.protocol \in {"http:", "https:"}
          /\ \/ /\ value.hostname \in {"youtube.com", "www.youtube.com", "m.youtube.com"}
                /\ value.v = "value"
             \/ /\ value.hostname = "youtu.be"
                /\ value.pathname # <<"/">>

\* the step just taken started a blocking operation
BlockingStarted == ev.kind \in Blocking /\ ev.op \in SubmitOps \cup {"ImportInputChange"}

\* C15: busyCount >= 0, isBusy exactly when busyCount > 0, busyMessage empty when
\* busyCount = 0; and while busyCount > 0 busyMessage is the message of the
\* blocking operation started last: a step that starts one sets its message, any
\* other step leaves the message as it is.
C15_BusyFieldsDerived ==
    /\ [](/\ state.busyCount >= 0
          /\ state.isBusy <=> state.busyCount > 0
          /\ state.busyCount = 0 => state.busyMessage = "")
    /\ [][state'.busyCount > 0 =>
            state'.busyMessage =
               IF BlockingStarted'
               THEN (IF ev'.kind = "add" THEN MsgAdd ELSE MsgImport)
               ELSE state.busyMessage]_vars

\* an import started after an add has finished first: the banner of the add still
\* running shows the import's message
C15_Witness ==
    /\ state.busyCount = 1 /\ state.busyMessage = MsgImport
    /\ Outstanding({"add"}) = 1 /\ Outstanding({"import"}) = 0

\* C16: busyCount is the number of add and import operations in flight: starting
\* one adds exactly one, its end (non-success response, raised request, or the
\* refetch answered in any way) takes exactly one off a counter that is above zero.
C16_BusyCountIsOutstanding ==
    /\ [](state.busyCount = Outstanding(Blocking))
    /\ [][/\ BlockingStarted' => state'.busyCount = state.busyCount + 1
          /\ BlockingFinished' =>
                state.busyCount >= 1 /\ state'.busyCount = state.busyCount - 1]_vars

\* the refetch of one of two overlapping operations raised and one is left
C16_Witness ==
    /\ ev.op = "DeliverFetch" /\ ev.kind \in Blocking /\ ev.res = "throw"
    /\ state.busyCount = 1 /\ Outstanding(Blocking) = 1

\* C20: a title or artist input losing focus issues exactly one update request,
\* for the id of its card and with that one field; neither that step nor the
\* answer to the request issues a queue refetch or changes any field of
\* ClientState.
C20_FocusOutUpdatesOneField ==
    [][/\ \A k \in 1..Len(dom.cards), field \in {"title", "artist"}, value \in Titles :
            FocusOut(k, field, value) =>
               /\ Requests(tasks')
                     = Append(Requests(tasks),
                              [kind |-> "update", pc |-> "update", id |-> dom.cards[k].id,
                               payload |-> {<<field, value>>}])
               /\ SubSeq(tasks', 1, Len(tasks)) = tasks
               /\ state' = state
       /\ \A i \in 1..Len(tasks) :
            UpdateResponse(i) =>
               /\ tasks' = RemoveAt(tasks, i)
               /\ state' = state]_vars

\* the backend has taken the new title of an item; the client's queue holds the
\* old one and nothing is on its way to replace it
C20_Witness ==
    /\ ev.op = "UpdateResponse" /\ ev.res = "ok"
    /\ tasks = <<>>
    /\ \E k \in 1..Len(state.queue) :
          /\ k <= Len(server.queue)
          /\ server.queue[k].id = state.queue[k].id
          /\ server.queue[k].title = "t1" /\ state.queue[k].title = "t0"

\* C17: state.preview takes a non-empty id only in the continuation of a preview
\* action whose fetch succeeded, and then holds that action's id and the fetched
\* url, which the player is given; a preview action whose fetch fails or raises
\* leaves state.preview and the player alone; no step of a poll, add, delete,
\* clear, import or edit sets a target.
C17_PreviewOnlyByPreviewAction ==
    [][/\ state'.preview # state.preview /\ state'.preview.id # NoId
            => /\ ev'.op = "PreviewResponse" /\ ev'.res = "ok"
               /\ \E i \in 1..Len(tasks) :
                     /\ PreviewResponse(i)
                     /\ state'.preview.id = tasks[i].id
               /\ state'.preview.url \in Urls
               /\ dom'.playerSrc = nextSrcOf(state'.preview)
       /\ ev'.op = "PreviewResponse" /\ ev'.res \in {"fail", "throw"}
            => /\ state'.preview = state.preview
               /\ dom'.playerSrc = dom.playerSrc
               /\ ev'.fx = NoFx
       /\ ev'.op # "PreviewResponse"
            => state'.preview \in {state.preview, Idle}]_vars

\* a preview action has just set its target and started the player on its url
C17_Witness ==
    /\ ev.op = "PreviewResponse" /\ ev.res = "ok"
    /\ ev.fx.srcWrites = 1 /\ ev.fx.plays = 1
    /\ state.preview.id # NoId
    /\ dom.playerSrc = nextSrcOf(state.preview)

\* C18: while a preview is set, a poll whose snapshot still holds the target's id
\* leaves state.preview and the player alone: no source assigned or cleared, no
\* play, no pause.
C18_PollKeepsPlayback ==
    [][\A i \in 1..Len(tasks) :
          /\ DeliverFetch(i)
          /\ tasks[i].kind = "poll" /\ tasks[i].res = "ok"
          /\ state.preview.id # NoId
          /\ Contains(tasks[i].snap, state.preview.id)
          => /\ state'.preview = state.preview
             /\ dom'.playerSrc = dom.playerSrc
             /\ dom'.previewStatus = dom.previewStatus
             /\ ev'.fx = NoFx]_vars

\* a poll has refreshed the queue under a playing preview
C18_Witness ==
    /\ ev.op = "DeliverFetch" /\ ev.kind = "poll" /\ ev.res \in {"ok", "stale"}
    /\ state.preview.id # NoId /\ Contains(state.queue, state.preview.id)
    /\ dom.playerSrc = nextSrcOf(state.preview)
    /\ ev.fx = NoFx

\* C19: refetch responses are applied in the order they arrive, with no guard: a
\* poll's snapshot that is older than the queue the client holds (the client's
\* queue being the backend's current one) replaces it all the same.
C19_StaleSnapshotApplied ==
    [][\A i \in 1..Len(tasks) :
          /\ DeliverFetch(i)
          /\ tasks[i].kind = "poll" /\ tasks[i].res = "ok"
          /\ state.queue = server.queue /\ tasks[i].snap # server.queue
          => /\ state'.queue = tasks[i].snap
             /\ state'.queue # server'.queue
             /\ IdsOf(dom'.cards) = IdsOf(tasks[i].snap)]_vars

\* the snapshot of a poll issued before a delete has arrived after the delete's
\* refetch was applied: the page shows the deleted item again
C19_Witness ==
    /\ ev.op = "DeliverFetch" /\ ev.kind = "poll" /\ ev.res = "stale"
    /\ tasks = <<>>
    /\ Len(state.queue) > Len(server.queue)
    /\ IdsOf(dom.cards) = IdsOf(state.queue)

\* C21: a non-empty state.preview.id is the id of an item of state.queue, also
\* while a preview's fetch is in flight and a delete or a poll replaces the queue.
C21_PreviewTargetInQueue ==
    state.preview.id # NoId => Contains(state.queue, state.preview.id)

\* the cards on the page are the items of state.queue, in order
CardsShowQueue == IdsOf(dom.cards) = IdsOf(state.queue)

\* the cards marked active are those of the preview target
ActiveShowsPreview ==
    dom.active = {k \in 1..Len(dom.cards) : dom.cards[k].id = state.preview.id}

\* C22: once the page has been rendered, between any two handler or callback runs
\* the queue section shows exactly the items of state.queue in their order, and
\* the card marked active is the one of state.preview.id (none when Idle).
C22_RenderedQueueMatchesState ==
    boot.pc = "done" => CardsShowQueue /\ ActiveShowsPreview

====
